---------------------------- MODULE Spec2Model ----------------------------
(***************************************************************************)
(* A model of the id-registry configuration GUI: the schema initializer    *)
(* DbUtil::initializeDatabase, the RAII guard DbUtil::ScopedDbConnection,  *)
(* and the MainWindow handlers that load and save the three settings rows. *)
(*                                                                         *)
(* Text is modelled as a sequence of one-character strings, so that        *)
(* trimming, number formatting and integer parsing are computed and not    *)
(* assumed.  The program is single-threaded: pc is the position of the one *)
(* control thread, and every statement of a handler that opens, uses or    *)
(* releases a connection is a step of its own.                             *)
(***************************************************************************)
EXTENDS Integers, Sequences, FiniteSets, TLC

VARIABLES
    pc,             \* position of the control thread
    caller,         \* who called initializeDatabase: "save", "api" or "none"
    dbPath,         \* the dbPath argument of the running DB function
    dirs,           \* directories that exist on disk
    files,          \* path -> content of the SQLite files that exist
    registry,       \* QSqlDatabase's process-wide table: name -> connection
    guards,         \* the ScopedDbConnection objects alive, innermost last
    prefs,          \* QSettings("IdRegistry","Settings") value of "DBPath"
    pathField,      \* lineEditDbPath->text()
    spin,           \* spinBoxIdLength->value()
    charsetField,   \* lineEditCharset->text()
    secretField,    \* lineEditAdminSecret->text()
    status,         \* labelStatus: the colour it shows
    initRet,        \* return value of initializeDatabase ("none" while unset)
    errorMessage,   \* initializeDatabase's out-parameter
    loadRet,        \* return value of loadSettingsFromDb ("none" while unset)
    qErr,           \* q.lastError().isValid() of the update query
    settingsUpdated,\* onSaveClicked's local flag
    execLog,        \* the driver's answers to the running function's calls, in order
    pwLength,       \* generateRandomPassword: the length argument
    password,       \* generateRandomPassword: the returned string
    pwDone          \* generateRandomPassword has returned

vars == <<pc, caller, dbPath, dirs, files, registry, guards, prefs, pathField,
          spin, charsetField, secretField, status, initRet, errorMessage,
          loadRet, qErr, settingsUpdated, execLog, pwLength, password, pwDone>>

---------------------------------------------------------------------------
(* Text *)

Lower == <<"a", "b", "c", "d", "e", "f", "g", "h", "i", "j", "k", "l", "m",
           "n", "o", "p", "q", "r", "s", "t", "u", "v", "w", "x", "y", "z">>
Upper == <<"A", "B", "C", "D", "E", "F", "G", "H", "I", "J", "K", "L", "M",
           "N", "O", "P", "Q", "R", "S", "T", "U", "V", "W", "X", "Y", "Z">>
Digits == <<"0", "1", "2", "3", "4", "5", "6", "7", "8", "9">>
Punctuation == <<"!", "@", "#", "$", "%", "^", "&", "*", "(", ")", "_", "+",
                 "-", "=", "[", "]", "{", "}", ";", ":", ",", ".", "<", ">",
                 "?", "/", "~">>

\* The literal `chars` of generateRandomPassword.
chars == Lower \o Upper \o Digits \o Punctuation

\* The default character set, as written in initializeDatabase's INSERT.
DbDefaultCharset == Lower \o Upper \o Digits
\* The default character set, as written in the MainWindow constructor.
FormDefaultCharset == Lower \o Upper \o Digits
\* The default id_length row and the spin box's start value.
DbDefaultIdLength == <<"1", "2">>
DbDefaultAdminSecret == <<"y", "o", "u", "r", "-", "s", "e", "c", "r", "e",
                          "t", "-", "h", "e", "r", "e">>

MinIdLength == 8
MaxIdLength == 32
DefaultIdLength == 12
DefaultPwLength == 12

Range(s) == {s[k] : k \in 1..Len(s)}

IsSpace(c) == c = " "

\* QString::trimmed(): whitespace removed from both ends.
RECURSIVE TrimLeft(_)
TrimLeft(s) ==
    IF s # <<>> /\ IsSpace(Head(s)) THEN TrimLeft(Tail(s)) ELSE s

RECURSIVE TrimRight(_)
TrimRight(s) ==
    IF s # <<>> /\ IsSpace(s[Len(s)])
    THEN TrimRight(SubSeq(s, 1, Len(s) - 1))
    ELSE s

trimmed(s) == TrimRight(TrimLeft(s))

DigitValue(c) == CHOOSE d \in 0..9 : Digits[d + 1] = c

IsDigit(c) == c \in Range(Digits)

\* QString::number(int): decimal digits, a leading "-" for a negative value.
RECURSIVE NatDigits(_)
NatDigits(n) ==
    IF n < 10 THEN <<Digits[n + 1]>>
    ELSE Append(NatDigits(n \div 10), Digits[(n % 10) + 1])

number(n) == IF n < 0 THEN <<"-">> \o NatDigits(-n) ELSE NatDigits(n)

RECURSIVE DigitsValue(_, _)
DigitsValue(s, acc) ==
    IF s = <<>> THEN acc
    ELSE DigitsValue(Tail(s), acc * 10 + DigitValue(Head(s)))

IntMax == 2147483647

\* QString::toInt(&ok): surrounding whitespace is skipped, one sign is
\* accepted, the rest must be one or more decimal digits that fit an int;
\* otherwise ok is false and the value 0.
toInt(s) ==
    LET t == trimmed(s)
        signed == t # <<>> /\ Head(t) \in {"+", "-"}
        body == IF signed THEN Tail(t) ELSE t
        wellFormed == body # <<>> /\ \A k \in 1..Len(body) : IsDigit(body[k])
        mag == IF wellFormed THEN DigitsValue(body, 0) ELSE 0
        val == IF signed /\ Head(t) = "-" THEN -mag ELSE mag
        fits == val >= -IntMax - 1 /\ val <= IntMax
    IN  IF wellFormed /\ fits THEN [ok |-> TRUE, val |-> val]
        ELSE [ok |-> FALSE, val |-> 0]

---------------------------------------------------------------------------
(* Files, directories and the SQLite file's content *)

Put(f, k, v) == [x \in DOMAIN f \cup {k} |-> IF x = k THEN v ELSE f[x]]

Drop(f, k) == [x \in DOMAIN f \ {k} |-> f[x]]

NoRows == [k \in {} |-> <<>>]

\* A file sqlite3_open has just created: no table yet.
EmptyDb == [tables |-> {}, rows |-> NoRows]

SlashPositions(p) == {k \in 1..Len(p) : p[k] = "/"}

LastSlash(p) ==
    IF SlashPositions(p) = {} THEN 0
    ELSE CHOOSE k \in SlashPositions(p) : \A j \in SlashPositions(p) : j <= k

\* QFileInfo(dbPath).dir(): the path up to its last separator.
dirOf(p) ==
    IF LastSlash(p) = 0 THEN <<".">>
    ELSE IF LastSlash(p) = 1 THEN <<"/">>
    ELSE SubSeq(p, 1, LastSlash(p) - 1)

\* The directory and every directory above it: what mkpath creates.
WithParents(d) ==
    {d} \cup {SubSeq(d, 1, k - 1) : k \in {j \in SlashPositions(d) : j > 1}}

\* The database file of this model, under a directory two levels deep.
GoodPath == <<"r", "/", "s", "/", "t">>
\* A path whose directory does not exist and cannot be created.
BadPath == <<"x", "/", "t">>
Unwritable == {<<"x">>}

\* A faulty variant: mkdir in place of mkpath, the directories above the
\* last one are not made.
mkpath_LeafOnly(ds, d) ==
    IF WithParents(d) \cap Unwritable = {}
    THEN [ok |-> TRUE, dirs |-> ds \cup {d}]
    ELSE [ok |-> FALSE, dirs |-> ds]

\* QDir::mkpath("."): the result and the directories afterwards.
mkpath(ds, d) ==
    IF WithParents(d) \cap Unwritable = {}
    THEN [ok |-> TRUE, dirs |-> ds \cup WithParents(d)]
    ELSE [ok |-> FALSE, dirs |-> ds]

\* CREATE TABLE IF NOT EXISTS <t>
CreateTableIfNotExists(db, t) == [db EXCEPT !.tables = @ \cup {t}]

\* A faulty variant: the default rows are written with INSERT OR REPLACE.
InsertOrIgnore_Replacing(rows, k, v) == Put(rows, k, v)

\* INSERT OR IGNORE INTO settings (key, value) VALUES (k, v)
InsertOrIgnore(rows, k, v) == IF k \in DOMAIN rows THEN rows ELSE Put(rows, k, v)

\* INSERT OR REPLACE INTO settings (key, value) VALUES (k, v)
InsertOrReplace(rows, k, v) == Put(rows, k, v)

\* The keys named in loadSettingsFromDb's WHERE key IN (...) clause.
LoadSelectKeys == {"id_length", "charset"}

\* SELECT key, value FROM settings WHERE key IN (...)
SelectSettings(rows) ==
    [k \in DOMAIN rows \cap LoadSelectKeys |-> rows[k]]

SettingsKeys == {"id_length", "charset", "admin_secret"}

\* A statement a step executes succeeds when the driver lets it (ok) and
\* the table it reads or writes exists.
ExecOk(db, ok, table) == ok /\ table \in db.tables

---------------------------------------------------------------------------
(* QSqlDatabase's registry and ScopedDbConnection *)

NoConnections == [n \in {} |-> [open |-> FALSE, path |-> <<>>]]

InitConnection == "init_connection"
LoadConnection == "load_settings"
UpdateConnection == "update_settings"

\* ScopedDbConnection::ScopedDbConnection: addDatabase registers the name
\* whether or not open() then succeeds.
ScopedDbConnectionCtor(reg, name, path, opened) ==
    Put(reg, name, [open |-> opened, path |-> path])

\* A faulty variant: the destructor closes but never calls removeDatabase.
ScopedDbConnectionDtor_NoRemove(reg, name) ==
    IF name \in DOMAIN reg
    THEN [reg EXCEPT ![name].open = FALSE]
    ELSE reg

\* ScopedDbConnection::~ScopedDbConnection: close if open, then remove.
ScopedDbConnectionDtor(reg, name) ==
    IF name \in DOMAIN reg THEN Drop(reg, name) ELSE reg

\* ScopedDbConnection::isOpen
isOpen(reg, name) == name \in DOMAIN reg /\ reg[name].open

\* db.open(): SQLite opens, and creates, a file only in an existing
\* directory; the driver may still refuse (permissions, a corrupt file).
CanOpen(ds, path, ok) == ok /\ dirOf(path) \in ds

\* The files after an open attempt.
Opened(fs, path, opened) ==
    IF opened /\ path \notin DOMAIN fs THEN Put(fs, path, EmptyDb) ELSE fs

\* A faulty variant: the guard is allocated on the heap and never deleted.
LeaveScope_Leaked(gs) == gs

\* The scope of a guard ends: the innermost live guard is destroyed.
LeaveScope(gs) == SubSeq(gs, 1, Len(gs) - 1)

EnterScope(gs, name) == Append(gs, name)

---------------------------------------------------------------------------
(* generateRandomPassword *)

\* A faulty variant: dis(0, chars.length()), one index too many.
DisMax_OffByOne == Len(chars)

\* Upper end of std::uniform_int_distribution<> dis(0, chars.length() - 1).
DisMax == Len(chars) - 1

\* chars[k], k counted from 0.  Reading past the string is undefined; it
\* yields no character of the string.
CharAt(s, k) == IF k \in 0..(Len(s) - 1) THEN s[k + 1] ELSE "<past the end>"

\* The loop of generateRandomPassword; draw[k] is the k-th value dis(gen)
\* returns.
RECURSIVE PasswordLoop(_, _, _, _)
PasswordLoop(i, length, draw, pw) ==
    IF i < length
    THEN PasswordLoop(i + 1, length, draw, Append(pw, CharAt(chars, draw[i + 1])))
    ELSE pw

generateRandomPassword(length, draw) == PasswordLoop(0, length, draw, <<>>)

\* Outcomes of the random source used where every outcome is too many: the
\* generator returns the same index every time, the lowest or the highest.
DrawSample(length) == {[k \in 1..length |-> j] : j \in {0, DisMax}}

---------------------------------------------------------------------------
(* The form *)

\* QSpinBox::setValue on a box with setRange(8, 32): the value is clamped.
setValue(v) ==
    IF v < MinIdLength THEN MinIdLength
    ELSE IF v > MaxIdLength THEN MaxIdLength ELSE v

\* A faulty variant: the range test is left to the spin box, which clamps.
ApplyIdLength_Clamping(cur, rows) ==
    IF "id_length" \in DOMAIN rows
    THEN LET r == toInt(rows["id_length"])
         IN  IF r.ok THEN setValue(r.val) ELSE cur
    ELSE cur

\* loadSettingsFromDb, key == "id_length": the new spin box value.
ApplyIdLength(cur, rows) ==
    IF "id_length" \in DOMAIN rows
    THEN LET r == toInt(rows["id_length"])
         IN  IF r.ok /\ r.val >= MinIdLength /\ r.val <= MaxIdLength
             THEN setValue(r.val)
             ELSE cur
    ELSE cur

\* loadSettingsFromDb, key == "charset" or "admin_secret": the new text.
ApplyText(cur, rows, key) ==
    IF key \in DOMAIN rows /\ rows[key] # <<>> THEN rows[key] ELSE cur

\* labelStatus: the colour of its style sheet stands for the message.
Status(color, text) == color

NoStatus == ""

\* What the user may type into the path field.
PathInputs == {<<" ">>, <<" ">> \o GoodPath \o <<" ">>}
\* What the file dialog may return; empty when cancelled.
BrowseResults == {<<>>, GoodPath, BadPath}
\* What a direct caller may pass to initializeDatabase.
ApiPaths == {<<>>, BadPath}
\* Values the user picks in the spin box.
IdLengthInputs == {MaxIdLength}
\* What the user may type into the character-set field.
CharsetInputs == {<<" ">>, <<"A", "B", "C", "1", "2", "3">>}
\* What the user may type into the admin-secret field.
SecretInputs == {<<" ">>, <<"s", "3", "c", "r", "3", "t">>}
\* id_length values of a database file that was not written by this program.
ForeignIdLengths == {<<"7">>, <<"3", "3">>, <<"1", "x">>}

\* A database file the user may point the program at.
ForeignDbs ==
    {[tables |-> {"ids", "settings"}, rows |-> Put(NoRows, "id_length", v)] :
        v \in ForeignIdLengths}

Top(gs) == gs[Len(gs)]

---------------------------------------------------------------------------
(* State *)

pwVars == <<pwLength, password, pwDone>>
formVars == <<pathField, spin, charsetField, secretField>>
diskVars == <<dirs, files>>
connVars == <<registry, guards>>
localVars == <<initRet, errorMessage, loadRet, qErr, settingsUpdated, execLog>>

\* The locals of a handler that is not running.
LocalsCleared ==
    /\ initRet = "none"
    /\ errorMessage = ""
    /\ loadRet = "none"
    /\ qErr = FALSE
    /\ settingsUpdated = FALSE
    /\ execLog = <<>>

NoFiles == [q \in {} |-> EmptyDb]

\* The disk a first run may start on: nothing yet, or the directory only.
FreshDisks ==
    {[dirs |-> {}, files |-> NoFiles],
     [dirs |-> WithParents(dirOf(GoodPath)), files |-> NoFiles]}

\* A disk on which the database file is already there.
ForeignDisks ==
    {[dirs |-> WithParents(dirOf(GoodPath)),
      files |-> [q \in {GoodPath} |-> db]] : db \in ForeignDbs}

\* Before main() has built the window: no form, no connection, and no
\* stored preference on a first run.
InitOn(disks) ==
    /\ pc = "start"
    /\ caller = "none"
    /\ dbPath = <<>>
    /\ \E d \in disks : dirs = d.dirs /\ files = d.files
    /\ registry = NoConnections
    /\ guards = <<>>
    /\ prefs = <<>>
    /\ pathField = <<>>
    /\ spin = MinIdLength
    /\ charsetField = <<>>
    /\ secretField = <<>>
    /\ status = NoStatus
    /\ LocalsCleared
    /\ pwLength = 0
    /\ password = <<>>
    /\ pwDone = FALSE

Init == InitOn(FreshDisks)

---------------------------------------------------------------------------
(* MainWindow::MainWindow and loadSettingsFromDb *)

\* The constructor up to the call of loadSettingsFromDb.
MainWindowCtor ==
    /\ pc = "start"
    /\ spin' = setValue(DefaultIdLength)
    /\ charsetField' = FormDefaultCharset
    /\ \E draw \in DrawSample(DefaultPwLength) :
          secretField' = generateRandomPassword(DefaultPwLength, draw)
    /\ pathField' = prefs
    /\ IF prefs # <<>>
       THEN /\ dbPath' = prefs
            /\ pc' = "load_open"
            /\ UNCHANGED status
       ELSE /\ status' = Status("red", "Please set the database location.")
            /\ pc' = "idle"
            /\ UNCHANGED dbPath
    /\ UNCHANGED <<caller, diskVars, connVars, prefs, localVars, pwVars>>

\* loadSettingsFromDb: the guard is constructed and isOpen() tested.
LoadOpen ==
    /\ pc = "load_open"
    /\ \E ok \in BOOLEAN :
          LET opened == CanOpen(dirs, dbPath, ok)
          IN  /\ registry' = ScopedDbConnectionCtor(registry, LoadConnection, dbPath, opened)
              /\ files' = Opened(files, dbPath, opened)
              /\ execLog' = Append(execLog, opened)
    /\ guards' = EnterScope(guards, LoadConnection)
    /\ IF isOpen(registry', LoadConnection)
       THEN pc' = "load_query" /\ UNCHANGED loadRet
       ELSE pc' = "load_dtor" /\ loadRet' = FALSE
    /\ UNCHANGED <<caller, dbPath, dirs, prefs, formVars, status, initRet,
                   errorMessage, qErr, settingsUpdated, pwVars>>

\* loadSettingsFromDb: the SELECT and the loop over its rows.
LoadQuery ==
    /\ pc = "load_query"
    /\ \E ok \in BOOLEAN :
          LET db == files[dbPath]
              done == ExecOk(db, ok, "settings")
              rows == IF done THEN SelectSettings(db.rows) ELSE NoRows
          IN  /\ execLog' = Append(execLog, done)
              /\ spin' = ApplyIdLength(spin, rows)
              /\ charsetField' = ApplyText(charsetField, rows, "charset")
              /\ secretField' = ApplyText(secretField, rows, "admin_secret")
    /\ loadRet' = TRUE
    /\ pc' = "load_dtor"
    /\ UNCHANGED <<caller, dbPath, diskVars, connVars, prefs, pathField, status,
                   initRet, errorMessage, qErr, settingsUpdated, pwVars>>

\* loadSettingsFromDb returns: its guard goes out of scope.
LoadDtor ==
    /\ pc = "load_dtor"
    /\ registry' = ScopedDbConnectionDtor(registry, Top(guards))
    /\ guards' = LeaveScope(guards)
    /\ pc' = "loaded"
    /\ UNCHANGED <<caller, dbPath, diskVars, prefs, formVars, status,
                   localVars, pwVars>>

\* The constructor after loadSettingsFromDb has returned.
LoadDone ==
    /\ pc = "loaded"
    /\ status' = IF loadRet = TRUE
                 THEN Status("green", "Loaded settings from: ")
                 ELSE Status("orange", "Database found, but could not load settings.")
    /\ loadRet' = "none"
    /\ execLog' = <<>>
    /\ dbPath' = <<>>
    /\ pc' = "idle"
    /\ UNCHANGED <<caller, diskVars, connVars, prefs, formVars, initRet,
                   errorMessage, qErr, settingsUpdated, pwVars>>

---------------------------------------------------------------------------
(* The user at the idle form *)

onBrowseClicked(path) ==
    /\ pc = "idle"
    /\ pathField' = IF path # <<>> THEN path ELSE pathField
    /\ UNCHANGED <<pc, caller, dbPath, diskVars, connVars, prefs, spin,
                   charsetField, secretField, status, localVars, pwVars>>

EditPath(text) ==
    /\ pc = "idle"
    /\ pathField' = text
    /\ UNCHANGED <<pc, caller, dbPath, diskVars, connVars, prefs, spin,
                   charsetField, secretField, status, localVars, pwVars>>

EditIdLength(n) ==
    /\ pc = "idle"
    /\ spin' = setValue(n)
    /\ UNCHANGED <<pc, caller, dbPath, diskVars, connVars, prefs, pathField,
                   charsetField, secretField, status, localVars, pwVars>>

EditCharset(text) ==
    /\ pc = "idle"
    /\ charsetField' = text
    /\ UNCHANGED <<pc, caller, dbPath, diskVars, connVars, prefs, pathField,
                   spin, secretField, status, localVars, pwVars>>

EditSecret(text) ==
    /\ pc = "idle"
    /\ secretField' = text
    /\ UNCHANGED <<pc, caller, dbPath, diskVars, connVars, prefs, pathField,
                   spin, charsetField, status, localVars, pwVars>>

\* The window is closed and the program started again: a new process has
\* an empty connection registry; the disk and the preference stay.
Quit ==
    /\ pc = "idle"
    /\ pc' = "start"
    /\ registry' = NoConnections
    /\ guards' = <<>>
    /\ pathField' = <<>>
    /\ spin' = MinIdLength
    /\ charsetField' = <<>>
    /\ secretField' = <<>>
    /\ status' = NoStatus
    /\ UNCHANGED <<caller, dbPath, diskVars, prefs, localVars, pwVars>>

---------------------------------------------------------------------------
(* DbUtil::initializeDatabase *)

\* A caller that is not the form calls the namespace function directly.
CallInitializeDatabase(path) ==
    /\ pc = "idle"
    /\ caller' = "api"
    /\ dbPath' = path
    /\ pc' = "init_check"
    /\ UNCHANGED <<diskVars, connVars, prefs, formVars, status, localVars, pwVars>>

\* The message is cleared, the path tested, the directory made.
InitCheck ==
    /\ pc = "init_check"
    /\ IF dbPath = <<>>
       THEN /\ errorMessage' = "Database path is empty."
            /\ initRet' = FALSE
            /\ pc' = "init_ret"
            /\ UNCHANGED dirs
       ELSE LET dir == dirOf(dbPath)
                made == mkpath(dirs, dir)
            IN  IF dir \notin dirs /\ ~made.ok
                THEN /\ errorMessage' = "Cannot create directory: "
                     /\ initRet' = FALSE
                     /\ pc' = "init_ret"
                     /\ dirs' = made.dirs
                ELSE /\ errorMessage' = ""
                     /\ dirs' = IF dir \in dirs THEN dirs ELSE made.dirs
                     /\ pc' = "init_open"
                     /\ UNCHANGED initRet
    /\ UNCHANGED <<caller, dbPath, files, connVars, prefs, formVars, status,
                   loadRet, qErr, settingsUpdated, execLog, pwVars>>

\* ScopedDbConnection conn(dbPath, "init_connection") and the isOpen() test.
InitOpen ==
    /\ pc = "init_open"
    /\ \E ok \in BOOLEAN :
          LET opened == CanOpen(dirs, dbPath, ok)
          IN  /\ registry' = ScopedDbConnectionCtor(registry, InitConnection, dbPath, opened)
              /\ files' = Opened(files, dbPath, opened)
              /\ execLog' = Append(execLog, opened)
    /\ guards' = EnterScope(guards, InitConnection)
    /\ IF isOpen(registry', InitConnection)
       THEN pc' = "init_ids" /\ UNCHANGED <<initRet, errorMessage>>
       ELSE /\ errorMessage' = "Failed to open database: "
            /\ initRet' = FALSE
            /\ pc' = "init_dtor"
    /\ UNCHANGED <<caller, dbPath, dirs, prefs, formVars, status, loadRet,
                   qErr, settingsUpdated, pwVars>>

\* CREATE TABLE IF NOT EXISTS <table>, and the return when it fails.
InitCreateTable(at, table, next, message) ==
    /\ pc = at
    /\ \E ok \in BOOLEAN :
          /\ execLog' = Append(execLog, ok)
          /\ IF ok
             THEN /\ files' = [files EXCEPT ![dbPath] = CreateTableIfNotExists(@, table)]
                  /\ pc' = next
                  /\ UNCHANGED <<initRet, errorMessage>>
             ELSE /\ errorMessage' = message
                  /\ initRet' = FALSE
                  /\ pc' = "init_dtor"
                  /\ UNCHANGED files
    /\ UNCHANGED <<caller, dbPath, dirs, connVars, prefs, formVars, status,
                   loadRet, qErr, settingsUpdated, pwVars>>

InitCreateIds ==
    InitCreateTable("init_ids", "ids", "init_settings", "Failed to create ids table: ")

InitCreateSettings ==
    InitCreateTable("init_settings", "settings", "init_defaults",
                    "Failed to create settings table: ")

\* One of the three INSERT OR IGNORE statements; its result is not looked at.
InsertDefault(rows, ok, k, v) == IF ok THEN InsertOrIgnore(rows, k, v) ELSE rows

\* The three default rows, then return true.
InitInsertDefaults ==
    /\ pc = "init_defaults"
    /\ \E ok1, ok2, ok3 \in BOOLEAN :
          LET r0 == files[dbPath].rows
              r1 == InsertDefault(r0, ok1, "id_length", DbDefaultIdLength)
              r2 == InsertDefault(r1, ok2, "charset", DbDefaultCharset)
              r3 == InsertDefault(r2, ok3, "admin_secret", DbDefaultAdminSecret)
          IN  /\ files' = [files EXCEPT ![dbPath].rows = r3]
              /\ execLog' = execLog \o <<ok1, ok2, ok3>>
    /\ initRet' = TRUE
    /\ pc' = "init_dtor"
    /\ UNCHANGED <<caller, dbPath, dirs, connVars, prefs, formVars, status,
                   errorMessage, loadRet, qErr, settingsUpdated, pwVars>>

\* initializeDatabase returns with conn alive: conn goes out of scope.
InitDtor ==
    /\ pc = "init_dtor"
    /\ registry' = ScopedDbConnectionDtor(registry, Top(guards))
    /\ guards' = LeaveScope(guards)
    /\ pc' = "init_ret"
    /\ UNCHANGED <<caller, dbPath, diskVars, prefs, formVars, status,
                   localVars, pwVars>>

---------------------------------------------------------------------------
(* MainWindow::onSaveClicked *)

\* A faulty variant: the path is taken from the field untrimmed.
SavePath_Untrimmed(field) == field

\* QString path = lineEditDbPath->text().trimmed();
SavePath(field) == trimmed(field)

\* The path is read and trimmed; an empty one ends the handler.
onSaveClicked ==
    /\ pc = "idle"
    /\ LET path == SavePath(pathField)
       IN  IF path = <<>>
           THEN /\ status' = Status("red", "Error: Path is required.")
                /\ UNCHANGED <<pc, caller, dbPath>>
           ELSE /\ caller' = "save"
                /\ dbPath' = path
                /\ pc' = "init_check"
                /\ UNCHANGED status
    /\ UNCHANGED <<diskVars, connVars, prefs, formVars, localVars, pwVars>>

\* initializeDatabase has returned to its caller.
InitReturn ==
    /\ pc = "init_ret"
    /\ IF caller = "save" /\ initRet = TRUE
       THEN /\ pc' = "upd_open"
            /\ settingsUpdated' = FALSE
            /\ UNCHANGED <<caller, dbPath, status>>
       ELSE /\ pc' = "idle"
            /\ caller' = "none"
            /\ dbPath' = <<>>
            /\ status' = IF caller = "save"
                         THEN Status("red", "Error: ")
                         ELSE status
            /\ UNCHANGED settingsUpdated
    /\ initRet' = "none"
    /\ errorMessage' = ""
    /\ execLog' = <<>>
    /\ UNCHANGED <<diskVars, connVars, prefs, formVars, loadRet, qErr, pwVars>>

\* DbUtil::ScopedDbConnection conn(path, "update_settings") and isOpen().
UpdateOpen ==
    /\ pc = "upd_open"
    /\ \E ok \in BOOLEAN :
          LET opened == CanOpen(dirs, dbPath, ok)
          IN  /\ registry' = ScopedDbConnectionCtor(registry, UpdateConnection, dbPath, opened)
              /\ files' = Opened(files, dbPath, opened)
              /\ execLog' = Append(execLog, opened)
    /\ guards' = EnterScope(guards, UpdateConnection)
    /\ pc' = IF isOpen(registry', UpdateConnection) THEN "upd_id_length" ELSE "upd_dtor"
    /\ UNCHANGED <<caller, dbPath, dirs, prefs, formVars, status, initRet,
                   errorMessage, loadRet, qErr, settingsUpdated, pwVars>>

\* Two addBindValue calls and q.exec(): one upsert of the prepared query.
Upsert(at, key, value, next) ==
    /\ pc = at
    /\ \E ok \in BOOLEAN :
          LET done == ExecOk(files[dbPath], ok, "settings")
          IN  /\ files' = IF done
                          THEN [files EXCEPT ![dbPath].rows = InsertOrReplace(@, key, value)]
                          ELSE files
              /\ qErr' = ~done
              /\ execLog' = Append(execLog, done)
    /\ pc' = next
    /\ UNCHANGED <<caller, dbPath, dirs, connVars, prefs, formVars, status,
                   initRet, errorMessage, loadRet, settingsUpdated, pwVars>>

UpsertIdLength == Upsert("upd_id_length", "id_length", number(spin), "upd_charset")

UpsertCharset == Upsert("upd_charset", "charset", trimmed(charsetField), "upd_secret")

UpsertAdminSecret == Upsert("upd_secret", "admin_secret", trimmed(secretField), "upd_check")

\* A faulty variant: the flag is set without looking at the last error.
CheckLastError_Ignored(updated, lastErrorIsValid) == TRUE

\* if (!q.lastError().isValid()) settingsUpdated = true;
CheckLastError(updated, lastErrorIsValid) ==
    IF ~lastErrorIsValid THEN TRUE ELSE updated

UpdateCheck ==
    /\ pc = "upd_check"
    /\ settingsUpdated' = CheckLastError(settingsUpdated, qErr)
    /\ pc' = "upd_dtor"
    /\ UNCHANGED <<caller, dbPath, diskVars, connVars, prefs, formVars, status,
                   initRet, errorMessage, loadRet, qErr, execLog, pwVars>>

\* The block of the update guard ends.
UpdateDtor ==
    /\ pc = "upd_dtor"
    /\ registry' = ScopedDbConnectionDtor(registry, Top(guards))
    /\ guards' = LeaveScope(guards)
    /\ pc' = "save_finish"
    /\ UNCHANGED <<caller, dbPath, diskVars, prefs, formVars, status,
                   localVars, pwVars>>

\* The path is stored in QSettings, shown again, and the outcome reported.
SaveFinish ==
    /\ pc = "save_finish"
    /\ prefs' = dbPath
    /\ pathField' = prefs'
    /\ status' = IF settingsUpdated
                 THEN Status("green", "Database initialized and settings saved at ")
                 ELSE Status("orange", "Database created, but settings update failed. Path saved.")
    /\ pc' = "idle"
    /\ caller' = "none"
    /\ dbPath' = <<>>
    /\ qErr' = FALSE
    /\ settingsUpdated' = FALSE
    /\ execLog' = <<>>
    /\ UNCHANGED <<diskVars, connVars, spin, charsetField, secretField, initRet,
                   errorMessage, loadRet, pwVars>>

---------------------------------------------------------------------------
(* The program *)

Next ==
    \/ MainWindowCtor
    \/ LoadOpen
    \/ LoadQuery
    \/ LoadDtor
    \/ LoadDone
    \/ \E path \in BrowseResults : onBrowseClicked(path)
    \/ \E text \in PathInputs : EditPath(text)
    \/ \E n \in IdLengthInputs : EditIdLength(n)
    \/ \E text \in CharsetInputs : EditCharset(text)
    \/ \E text \in SecretInputs : EditSecret(text)
    \/ Quit
    \/ \E path \in ApiPaths : CallInitializeDatabase(path)
    \/ InitCheck
    \/ InitOpen
    \/ InitCreateIds
    \/ InitCreateSettings
    \/ InitInsertDefaults
    \/ InitDtor
    \/ onSaveClicked
    \/ InitReturn
    \/ UpdateOpen
    \/ UpsertIdLength
    \/ UpsertCharset
    \/ UpsertAdminSecret
    \/ UpdateCheck
    \/ UpdateDtor
    \/ SaveFinish

Spec == Init /\ [][Next]_vars

---------------------------------------------------------------------------
(* The ID length over its whole range, on a database that may be foreign *)

InitLen == InitOn(FreshDisks \cup ForeignDisks)

NextLen ==
    \/ MainWindowCtor
    \/ LoadOpen
    \/ LoadQuery
    \/ LoadDtor
    \/ LoadDone
    \/ onBrowseClicked(GoodPath)
    \/ \E n \in MinIdLength..MaxIdLength : EditIdLength(n)
    \/ Quit
    \/ InitCheck
    \/ InitOpen
    \/ InitCreateIds
    \/ InitCreateSettings
    \/ InitInsertDefaults
    \/ InitDtor
    \/ onSaveClicked
    \/ InitReturn
    \/ UpdateOpen
    \/ UpsertIdLength
    \/ UpsertCharset
    \/ UpsertAdminSecret
    \/ UpdateCheck
    \/ UpdateDtor
    \/ SaveFinish

SpecLen == InitLen /\ [][NextLen]_vars

---------------------------------------------------------------------------
(* generateRandomPassword on its own *)

\* Longest password for which every outcome of the random source is tried.
MaxPwLength == 2

\* What the random source may return over one call: every sequence of
\* indices for a short password, the sample for a longer one.
Draws(length) ==
    IF length <= MaxPwLength
    THEN [1..length -> 0..DisMax]
    ELSE DrawSample(length)

\* A call is about to be made, with some length or with the default one.
InitPw ==
    /\ pc = "generate"
    /\ caller = "none"
    /\ dbPath = <<>>
    /\ dirs = {}
    /\ files = NoFiles
    /\ registry = NoConnections
    /\ guards = <<>>
    /\ prefs = <<>>
    /\ pathField = <<>>
    /\ spin = MinIdLength
    /\ charsetField = <<>>
    /\ secretField = <<>>
    /\ status = NoStatus
    /\ LocalsCleared
    /\ pwLength \in (0..MaxPwLength) \cup {DefaultPwLength}
    /\ password = <<>>
    /\ pwDone = FALSE

CallGenerateRandomPassword ==
    /\ pc = "generate"
    /\ \E draw \in Draws(pwLength) :
          password' = generateRandomPassword(pwLength, draw)
    /\ pwDone' = TRUE
    /\ pc' = "generated"
    /\ UNCHANGED <<caller, dbPath, diskVars, connVars, prefs, formVars, status,
                   localVars, pwLength>>

NextPw == CallGenerateRandomPassword

SpecPw == InitPw /\ [][NextPw]_vars

---------------------------------------------------------------------------
(* Properties *)

InitPcs == {"init_check", "init_open", "init_ids", "init_settings",
            "init_defaults", "init_dtor"}
InitGuardPcs == {"init_ids", "init_settings", "init_defaults", "init_dtor"}
LoadGuardPcs == {"load_query", "load_dtor"}
UpdateGuardPcs == {"upd_id_length", "upd_charset", "upd_secret", "upd_check",
                   "upd_dtor"}
DtorPcs == {"init_dtor", "load_dtor", "upd_dtor"}

AllOk(log) == \A k \in 1..Len(log) : log[k]

RowsOf(fs, p) == IF p \in DOMAIN fs THEN fs[p].rows ELSE NoRows

TablesOf(fs, p) == IF p \in DOMAIN fs THEN fs[p].tables ELSE {}

\* C1: initializeDatabase never overwrites.  While it runs, no file and no
\* table disappears, every settings row that exists keeps its key and its
\* value, and the only rows added have the keys id_length, charset and
\* admin_secret; it returns true exactly when the open and the two CREATE
\* TABLE statements were answered, whatever the settings table held.
C1_InitNeverOverwrites ==
    [][(pc \in InitPcs) =>
        /\ DOMAIN files \subseteq DOMAIN files'
        /\ \A p \in DOMAIN files' :
              /\ TablesOf(files, p) \subseteq files'[p].tables
              /\ \A k \in DOMAIN RowsOf(files, p) :
                    /\ k \in DOMAIN files'[p].rows
                    /\ files'[p].rows[k] = RowsOf(files, p)[k]
              /\ (DOMAIN files'[p].rows) \ (DOMAIN RowsOf(files, p))
                    \subseteq {"id_length", "charset", "admin_secret"}
        /\ pc' = "init_ret" =>
              (initRet' = TRUE <=>
                  Len(execLog') >= 3 /\ AllOk(SubSeq(execLog', 1, 3)))
    ]_vars

\* C1's case: initializeDatabase has returned true on the file an earlier
\* save wrote, and the saved rows are still there.
C1_Witness ==
    /\ pc = "init_ret"
    /\ initRet = TRUE
    /\ prefs = dbPath
    /\ "charset" \in DOMAIN files[dbPath].rows
    /\ files[dbPath].rows["charset"] = <<"A", "B", "C", "1", "2", "3">>
    /\ "admin_secret" \in DOMAIN files[dbPath].rows
    /\ files[dbPath].rows["admin_secret"] = <<"s", "3", "c", "r", "3", "t">>

\* C2: whenever initializeDatabase has returned true, with every statement
\* of the call answered by the driver, the settings table holds exactly the
\* keys id_length, charset and admin_secret, each with a non-empty value.
C2_ThreeNonEmptyRowsAfterInit ==
    (pc = "init_ret" /\ initRet = TRUE /\ AllOk(execLog)) =>
        /\ DOMAIN files[dbPath].rows = {"id_length", "charset", "admin_secret"}
        /\ \A k \in DOMAIN files[dbPath].rows : files[dbPath].rows[k] # <<>>

\* C3: when loadSettingsFromDb has read a settings table whose three rows
\* are usable and whose admin_secret row is not the default one, so that a
\* save wrote it, the three form fields show the three stored values.
C3_ReloadRestoresAllThree ==
    (/\ pc = "load_dtor"
     /\ loadRet = TRUE
     /\ execLog = <<TRUE, TRUE>>
     /\ DOMAIN files[dbPath].rows = {"id_length", "charset", "admin_secret"}
     /\ files[dbPath].rows["id_length"] \in
            {<<"8">>, <<"1", "2">>, <<"1", "6">>, <<"3", "2">>}
     /\ files[dbPath].rows["charset"] # <<>>
     /\ files[dbPath].rows["admin_secret"] # <<>>
     /\ files[dbPath].rows["admin_secret"] # DbDefaultAdminSecret)
    =>
        /\ number(spin) = files[dbPath].rows["id_length"]
        /\ charsetField = files[dbPath].rows["charset"]
        /\ secretField = files[dbPath].rows["admin_secret"]

\* The decimal numeral of n, 0 <= n <= 99, written out.
Numeral(n) ==
    IF n < 10 THEN <<Digits[n + 1]>>
    ELSE <<Digits[(n \div 10) + 1], Digits[(n % 10) + 1]>>

\* The ID length a reload must show for the stored text v: the n in [8,32]
\* whose numeral v is, and else the 12 shown before the reload.
ExpectedIdLength(v) ==
    IF \E n \in 8..32 : Numeral(n) = v
    THEN CHOOSE n \in 8..32 : Numeral(n) = v
    ELSE 12

\* C4: the ID length round trip.  An upsert of id_length that succeeded has
\* stored the numeral of the spin box value; a reload that read the table
\* shows n when the stored text is the numeral of an n in [8,32], and still
\* shows 12, the value displayed before it, for any other stored text (no
\* row, "7", "33", "1x").
C4_IdLengthRoundTrip ==
    /\ (pc = "upd_charset" /\ execLog[Len(execLog)]) =>
          /\ spin \in 8..32
          /\ files[dbPath].rows["id_length"] = Numeral(spin)
    /\ (pc = "load_dtor" /\ loadRet = TRUE /\ execLog = <<TRUE, TRUE>>) =>
          IF "id_length" \in DOMAIN files[dbPath].rows
          THEN spin = ExpectedIdLength(files[dbPath].rows["id_length"])
          ELSE spin = 12

\* C4's case: a reload has shown the 32 that a save stored.
C4_Witness ==
    /\ pc = "load_dtor"
    /\ loadRet = TRUE
    /\ execLog = <<TRUE, TRUE>>
    /\ "id_length" \in DOMAIN files[dbPath].rows
    /\ files[dbPath].rows["id_length"] = <<"3", "2">>
    /\ spin = 32

\* C5: an empty path is rejected with no side effect.  initializeDatabase
\* on an empty path returns false with a message and touches no directory,
\* file or connection; from the idle form with a path field that is empty
\* after trimming, no step calls initializeDatabase for the save handler or
\* changes the disk or the stored path, and a status that changes while the
\* form stays idle turns red.
C5_EmptyPathRejected ==
    [][/\ (pc = "init_check" /\ dbPath = <<>>) =>
              /\ pc' = "init_ret"
              /\ initRet' = FALSE
              /\ errorMessage' # ""
              /\ UNCHANGED <<dirs, files, registry, guards>>
       /\ (pc = "idle" /\ trimmed(pathField) = <<>>) =>
              /\ caller' # "save"
              /\ UNCHANGED <<dirs, files, prefs>>
              /\ (pc' = "idle" /\ status' # status) => status' = "red"
              /\ pc' \in {"idle", "start", "init_check"}
    ]_vars

\* C5's case: initializeDatabase has returned from a call with the empty
\* path.
C5_Witness ==
    /\ pc = "init_ret"
    /\ dbPath = <<>>
    /\ initRet = FALSE
    /\ errorMessage = "Database path is empty."
    /\ registry = NoConnections

\* C6: a guard is always released.  The registry holds exactly the names of
\* the live guards; outside every guard's scope it is empty and no guard is
\* alive; a guard that is about to be destroyed still has its name
\* registered, so the destructor removes it once; and while a guard's
\* connection is used it is open on the path it was given.
C6_GuardAlwaysReleased ==
    /\ DOMAIN registry = Range(guards)
    /\ pc \notin (InitGuardPcs \cup LoadGuardPcs \cup UpdateGuardPcs) =>
          registry = NoConnections /\ guards = <<>>
    /\ pc \in DtorPcs => Len(guards) = 1 /\ Top(guards) \in DOMAIN registry
    /\ pc \in (InitGuardPcs \cup LoadGuardPcs \cup UpdateGuardPcs) \ DtorPcs =>
          /\ isOpen(registry, Top(guards))
          /\ registry[Top(guards)].path = dbPath
          /\ dbPath \in DOMAIN files

\* C6's case: after a whole save on this path, which used init_connection
\* and then update_settings, a guard named init_connection is open again.
C6_Witness ==
    /\ pc = "init_ids"
    /\ prefs = dbPath
    /\ isOpen(registry, InitConnection)

\* C7: the postcondition of initializeDatabase.  Past the directory step
\* the directory of the path and the directories above it exist; when it
\* has returned true the file exists with both tables; when the directory
\* could not be made it has returned false with no driver call made, no
\* connection registered and no file created.
C7_InitPostcondition ==
    /\ (pc \in InitPcs \ {"init_check"} /\ dbPath = GoodPath) =>
          {<<"r">>, <<"r", "/", "s">>} \subseteq dirs
    /\ (pc = "init_ret" /\ initRet = TRUE) =>
          /\ dbPath # <<>>
          /\ dirOf(dbPath) \in dirs
          /\ dbPath \in DOMAIN files
          /\ {"ids", "settings"} \subseteq files[dbPath].tables
    /\ (pc = "init_ret" /\ errorMessage = "Cannot create directory: ") =>
          /\ initRet = FALSE
          /\ execLog = <<>>
          /\ registry = NoConnections
          /\ dbPath \notin DOMAIN files
          /\ <<"x">> \notin dirs

\* C7's case: initializeDatabase has returned true for the save handler.
C7_Witness ==
    /\ pc = "init_ret"
    /\ initRet = TRUE
    /\ caller = "save"
    /\ files[dbPath].tables = {"ids", "settings"}

\* The alphabet as the source spells it: lowercase, uppercase, digits and
\* the punctuation symbols.
SourceAlphabet ==
    Range(Lower) \cup Range(Upper) \cup Range(Digits) \cup Range(Punctuation)

\* C8 as stated: a generated password has exactly the length asked for and
\* every character of it belongs to the alphabet, which has exactly 70
\* characters.
C8_SeventyCharacterAlphabet ==
    pwDone =>
        /\ Len(password) = pwLength
        /\ \A k \in 1..Len(password) : password[k] \in SourceAlphabet
        /\ Cardinality(SourceAlphabet) = 70

\* C8, amended: a generated password has exactly the length asked for and
\* every character of it belongs to the alphabet, which has exactly 89
\* characters: 26 lowercase, 26 uppercase, 10 digits, 27 punctuation.
C8_PasswordLengthAndAlphabet ==
    pwDone =>
        /\ Len(password) = pwLength
        /\ \A k \in 1..Len(password) : password[k] \in SourceAlphabet
        /\ Cardinality(SourceAlphabet) = 89
        /\ Cardinality(Range(Punctuation)) = 27

\* C8's case: a password of two characters, the first and the last of the
\* alphabet.
C8_Witness == pwDone /\ pwLength = 2 /\ password = <<"a", "~">>

\* C9: guards never overlap.  At most one guard is alive and at most one
\* connection registered at any moment, and each connection name is alive
\* only inside the function that owns it.
C9_NoOverlappingGuards ==
    /\ Len(guards) <= 1
    /\ Cardinality(DOMAIN registry) <= 1
    /\ InitConnection \in Range(guards) => pc \in InitGuardPcs
    /\ LoadConnection \in Range(guards) => pc \in LoadGuardPcs
    /\ UpdateConnection \in Range(guards) => pc \in UpdateGuardPcs

\* C9's case: the update guard is alive, alone, after the initialization
\* guard of the same save has gone.
C9_Witness ==
    /\ pc = "upd_id_length"
    /\ guards = <<UpdateConnection>>
    /\ DOMAIN registry = {UpdateConnection}

\* C10: the save outcome depends only on the last upsert.  Once the update
\* connection is open all three upserts are executed; the flag is set
\* exactly when the connection opened and the third upsert succeeded,
\* whatever the first two did; and the handler then stores the path and
\* shows green when the flag is set, orange when it is not.
C10_OutcomeFromLastUpsert ==
    /\ [](pc \in {"upd_dtor", "save_finish"} =>
            /\ execLog[1] => Len(execLog) = 4
            /\ ~execLog[1] => Len(execLog) = 1
            /\ settingsUpdated <=> (execLog[1] /\ execLog[Len(execLog)]))
    /\ [][pc = "save_finish" =>
            /\ prefs' = dbPath
            /\ pathField' = dbPath
            /\ status' = IF settingsUpdated THEN "green" ELSE "orange"
         ]_vars

\* C10's case: the first upsert failed, the third succeeded, and the save
\* is about to be reported as successful.
C10_Witness ==
    /\ pc = "save_finish"
    /\ settingsUpdated
    /\ Len(execLog) = 4
    /\ ~execLog[2]
    /\ execLog[4]

=============================================================================
